---- MODULE Spec2Model ----
(***************************************************************************)
(* Gift-code relay bot (src/bot.py): the text extraction helpers, the      *)
(* SQLite ledger (Store.upsert_code) and the on_message pipeline, whose    *)
(* runs are asyncio tasks that interleave at their await points.           *)
(*                                                                         *)
(* Text is a sequence of one-character strings; Python's None and SQL NULL *)
(* are the empty sequence; a date is <<year, month, day>>.                 *)
(***************************************************************************)
EXTENDS Integers, Sequences, FiniteSets, TLC

\* ------------------------------------------------------------------------
\* Characters and the regular-expression character classes
\* ------------------------------------------------------------------------
LowerSeq == <<"a","b","c","d","e","f","g","h","i","j","k","l","m",
              "n","o","p","q","r","s","t","u","v","w","x","y","z">>
UpperSeq == <<"A","B","C","D","E","F","G","H","I","J","K","L","M",
              "N","O","P","Q","R","S","T","U","V","W","X","Y","Z">>
DigitSeq == <<"0","1","2","3","4","5","6","7","8","9">>

Range(f) == {f[i] : i \in DOMAIN f}

Lower == Range(LowerSeq)
Upper == Range(UpperSeq)
Digit == Range(DigitSeq)
\* \s
Space == {" ", "\t", "\n"}
\* \w
WordChar == Upper \cup Lower \cup Digit \cup {"_"}
\* mutant of CodeChar: CODE_REGEX compiled with re.IGNORECASE
CodeChar_IgnoreCase == Upper \cup Lower \cup Digit

\* [A-Z0-9], the class of CODE_REGEX (compiled without re.IGNORECASE)
CodeChar == Upper \cup Digit

None == <<>>

CharUpper(c) ==
    IF c \in Lower THEN UpperSeq[CHOOSE i \in 1..26 : LowerSeq[i] = c] ELSE c

CharLower(c) ==
    IF c \in Upper THEN LowerSeq[CHOOSE i \in 1..26 : UpperSeq[i] = c] ELSE c

\* str.upper() and str.lower()
StrUpper(s) == [i \in 1..Len(s) |-> CharUpper(s[i])]
StrLower(s) == [i \in 1..Len(s) |-> CharLower(s[i])]

\* int() of a run of decimal digits
DigitValue(c) == (CHOOSE i \in 1..10 : DigitSeq[i] = c) - 1

RECURSIVE ParseInt(_)
ParseInt(s) ==
    IF s = <<>> THEN 0
    ELSE 10 * ParseInt(SubSeq(s, 1, Len(s) - 1)) + DigitValue(s[Len(s)])

\* s has p at position i (1-based)
StartsWithAt(s, i, p) ==
    /\ i >= 1
    /\ i + Len(p) - 1 <= Len(s)
    /\ \A k \in 1..Len(p) : s[i + k - 1] = p[k]

\* "p in s"
Contains(s, p) == \E i \in 1..(Len(s) + 1) : StartsWithAt(s, i, p)

\* length of the longest run of characters of class cls that starts at i
RECURSIVE RunLen(_, _, _)
RunLen(s, i, cls) ==
    IF i >= 1 /\ i <= Len(s) /\ s[i] \in cls THEN 1 + RunLen(s, i + 1, cls) ELSE 0

\* length of the longest run of characters outside cls that starts at i
RECURSIVE RunLenNot(_, _, _)
RunLenNot(s, i, cls) ==
    IF i >= 1 /\ i <= Len(s) /\ s[i] \notin cls THEN 1 + RunLenNot(s, i + 1, cls) ELSE 0

IsWordAt(s, k) == k >= 1 /\ k <= Len(s) /\ s[k] \in WordChar

\* \b between s[i] and s[i+1] (i = 0 is the start, i = Len(s) the end)
WordBoundary(s, i) == IsWordAt(s, i) # IsWordAt(s, i + 1)

\* ------------------------------------------------------------------------
\* find_codes
\* ------------------------------------------------------------------------
Str_http == <<"h","t","t","p">>
Str_colon_slashes == <<":","/","/">>

\* length of the match of https?://\S+ at i, 0 when there is none
UrlLenAt(s, i) ==
    IF ~StartsWithAt(s, i, Str_http) THEN 0
    ELSE LET j == IF StartsWithAt(s, i + 4, <<"s">>) THEN i + 5 ELSE i + 4
             n == RunLenNot(s, j + 3, Space)
         IN  IF StartsWithAt(s, j, Str_colon_slashes) /\ n >= 1
             THEN (j + 3 + n) - i
             ELSE 0

\* re.sub(r"https?://\S+", " ", raw)
RECURSIVE StripUrlsFrom(_, _)
StripUrlsFrom(s, i) ==
    IF i > Len(s) THEN <<>>
    ELSE LET n == UrlLenAt(s, i)
         IN  IF n > 0 THEN <<" ">> \o StripUrlsFrom(s, i + n)
             ELSE <<s[i]>> \o StripUrlsFrom(s, i + 1)

StripUrls(s) == StripUrlsFrom(s, 1)

MinGroupLen == 4
MinPlainLen == 6
MaxPlainLen == 25

\* end position of the last group of the greedy (?:-[A-Z0-9]{4,})+ that
\* continues a match ending at e; e itself when no group follows
RECURSIVE DashGroupsEnd(_, _)
DashGroupsEnd(s, e) ==
    LET n == RunLen(s, e + 2, CodeChar)
    IN  IF StartsWithAt(s, e + 1, <<"-">>) /\ n >= MinGroupLen
        THEN DashGroupsEnd(s, e + 1 + n)
        ELSE e

\* end position of the last but one group of the same repetition
RECURSIVE DashGroupsPrevEnd(_, _, _)
DashGroupsPrevEnd(s, e, last) ==
    LET n == RunLen(s, e + 2, CodeChar)
    IN  IF e + 1 + n = last THEN e ELSE DashGroupsPrevEnd(s, e + 1 + n, last)

\* length of the match of CODE_REGEX at i, 0 when there is none: the dashed
\* alternative first, the plain 6..25 run second, \b on both sides
CodeMatchLen(s, i) ==
    LET n  == RunLen(s, i, CodeChar)
        e1 == i + n - 1
        eg == DashGroupsEnd(s, e1)
        ep == IF eg > e1 THEN DashGroupsPrevEnd(s, e1, eg) ELSE e1
    IN  IF ~WordBoundary(s, i - 1) \/ n = 0 THEN 0
        ELSE IF n >= MinGroupLen /\ eg > e1 /\ WordBoundary(s, eg) THEN eg - i + 1
        ELSE IF n >= MinGroupLen /\ ep > e1 THEN ep - i + 1
        ELSE IF n >= MinPlainLen /\ n <= MaxPlainLen /\ WordBoundary(s, e1) THEN n
        ELSE 0

normalize_code(token) == StrUpper(token)

\* [normalize_code(m.group(1)) for m in CODE_REGEX.finditer(cleaned)]
RECURSIVE FindCodesFrom(_, _)
FindCodesFrom(s, i) ==
    IF i > Len(s) THEN <<>>
    ELSE LET n == CodeMatchLen(s, i)
         IN  IF n > 0
             THEN <<normalize_code(SubSeq(s, i, i + n - 1))>> \o FindCodesFrom(s, i + n)
             ELSE FindCodesFrom(s, i + 1)

find_codes(raw) == FindCodesFrom(StripUrls(raw), 1)

\* ------------------------------------------------------------------------
\* looks_like_gift_announcement
\* ------------------------------------------------------------------------
DEFAULT_KEYWORDS == <<
    <<"g","i","f","t"," ","c","o","d","e">>,
    <<"g","i","f","t","c","o","d","e">>,
    <<"v","o","u","c","h","e","r">>,
    <<"r","e","d","e","e","m">>,
    <<"c","h","i","e","f"," ","c","o","n","c","i","e","r","g","e">>,
    <<"c","o","n","c","i","e","r","g","e">>,
    <<"v","i","p">> >>

\* the KEYWORDS environment variable is unset: the defaults, stripped and lowered
KEYWORDS == [i \in 1..Len(DEFAULT_KEYWORDS) |-> StrLower(DEFAULT_KEYWORDS[i])]

looks_like_gift_announcement(raw) ==
    LET lower == StrLower(raw)
    IN  \E i \in 1..Len(KEYWORDS) : Contains(lower, KEYWORDS[i])

\* ------------------------------------------------------------------------
\* extract_expiry
\* ------------------------------------------------------------------------
MINYEAR == 1
MAXYEAR == 9999

IsLeap(y) == (y % 4 = 0) /\ ((y % 100 # 0) \/ (y % 400 = 0))

DaysInMonth(y, m) ==
    IF m = 2 THEN (IF IsLeap(y) THEN 29 ELSE 28)
    ELSE IF m \in {4, 6, 9, 11} THEN 30 ELSE 31

\* mutant of ValidDate: a date is built from any three numbers
ValidDate_Any(y, m, d) == TRUE

\* date(y, m, d) does not raise ValueError
ValidDate(y, m, d) ==
    /\ y >= MINYEAR /\ y <= MAXYEAR
    /\ m >= 1 /\ m <= 12
    /\ d >= 1 /\ d <= DaysInMonth(y, m)

\* the groups <<year, month, day>> of \b(\d{4})[\/\-](\d{1,2})[\/\-](\d{1,2})\b
\* matched at i, None when it does not match there
PatternAAt(s, i) ==
    LET seps == {"/", "-"}
        nm   == RunLen(s, i + 5, Digit)
        pd   == i + 5 + nm + 1
        nd   == RunLen(s, pd, Digit)
    IN  IF /\ WordBoundary(s, i - 1)
           /\ RunLen(s, i, Digit) = 4
           /\ i + 4 <= Len(s) /\ s[i + 4] \in seps
           /\ nm \in {1, 2}
           /\ pd - 1 <= Len(s) /\ s[pd - 1] \in seps
           /\ nd \in {1, 2}
           /\ WordBoundary(s, pd + nd - 1)
        THEN << ParseInt(SubSeq(s, i, i + 3)),
                ParseInt(SubSeq(s, i + 5, i + 4 + nm)),
                ParseInt(SubSeq(s, pd, pd + nd - 1)) >>
        ELSE None

\* the groups <<day, month, year>> of \b(\d{1,2})[\/\.](\d{1,2})[\/\.](\d{4})\b
\* matched at i, None when it does not match there
PatternBAt(s, i) ==
    LET seps == {"/", "."}
        nd   == RunLen(s, i, Digit)
        pm   == i + nd + 1
        nm   == RunLen(s, pm, Digit)
        py   == pm + nm + 1
    IN  IF /\ WordBoundary(s, i - 1)
           /\ nd \in {1, 2}
           /\ pm - 1 <= Len(s) /\ s[pm - 1] \in seps
           /\ nm \in {1, 2}
           /\ py - 1 <= Len(s) /\ s[py - 1] \in seps
           /\ RunLen(s, py, Digit) >= 4
           /\ WordBoundary(s, py + 3)
        THEN << ParseInt(SubSeq(s, i, i + nd - 1)),
                ParseInt(SubSeq(s, pm, pm + nm - 1)),
                ParseInt(SubSeq(s, py, py + 3)) >>
        ELSE None

\* re.search: the match at the leftmost position that has one
SearchA(s) ==
    LET hits == {i \in 1..Len(s) : PatternAAt(s, i) # None}
    IN  IF hits = {} THEN None
        ELSE PatternAAt(s, CHOOSE i \in hits : \A j \in hits : i <= j)

SearchB(s) ==
    LET hits == {i \in 1..Len(s) : PatternBAt(s, i) # None}
    IN  IF hits = {} THEN None
        ELSE PatternBAt(s, CHOOSE i \in hits : \A j \in hits : i <= j)

\* Only the first match of each pattern is tried; a ValueError from date()
\* is swallowed by the bare except and the next pattern is tried.
extract_expiry(raw) ==
    LET a == SearchA(raw)
        b == SearchB(raw)
    IN  IF a # None /\ ValidDate(a[1], a[2], a[3]) THEN a
        ELSE IF b # None /\ ValidDate(b[3], b[2], b[1]) THEN <<b[3], b[2], b[1]>>
        ELSE None

\* ------------------------------------------------------------------------
\* VIP_REGEX.search
\* ------------------------------------------------------------------------
Str_chief == <<"c","h","i","e","f">>
Str_concierge == <<"c","o","n","c","i","e","r","g","e">>
Str_vip == <<"v","i","p">>

\* \b(chief\s*concierge|vip\s*1?2?)\b matches at i (re.IGNORECASE)
VipMatchAt(s, i) ==
    LET low == StrLower(s)
        wc  == RunLen(low, i + 5, Space)
        wv  == RunLen(low, i + 3, Space)
    IN  /\ WordBoundary(low, i - 1)
        /\ \/ /\ StartsWithAt(low, i, Str_chief)
              /\ StartsWithAt(low, i + 5 + wc, Str_concierge)
              /\ WordBoundary(low, i + 5 + wc + 8)
           \/ /\ StartsWithAt(low, i, Str_vip)
              /\ \E k \in 0..wv : \E one \in {0, 1} : \E two \in {0, 1} :
                    LET p == i + 3 + k
                    IN  /\ (one = 1 => StartsWithAt(low, p, <<"1">>))
                        /\ (two = 1 => StartsWithAt(low, p + one, <<"2">>))
                        /\ WordBoundary(low, p + one + two - 1)

\* bool(VIP_REGEX.search(raw))
VipSearch(raw) == \E i \in 1..Len(raw) : VipMatchAt(raw, i)

\* ------------------------------------------------------------------------
\* Formatting
\* ------------------------------------------------------------------------
\* decimal digits of n >= 0, without padding
RECURSIVE IntToStr(_)
IntToStr(n) ==
    IF n < 10 THEN <<DigitSeq[n + 1]>>
    ELSE IntToStr(n \div 10) \o <<DigitSeq[(n % 10) + 1]>>

\* "%0<width>d"
ZeroPad(n, width) ==
    LET t == IntToStr(n)
    IN  IF Len(t) >= width THEN t
        ELSE [i \in 1..width |-> IF i <= width - Len(t) THEN "0" ELSE t[i - (width - Len(t))]]

\* date.isoformat(): YYYY-MM-DD
DateIso(d) == ZeroPad(d[1], 4) \o <<"-">> \o ZeroPad(d[2], 2) \o <<"-">> \o ZeroPad(d[3], 2)

\* date.fromisoformat() of a YYYY-MM-DD string
DateFromIso(t) ==
    << ParseInt(SubSeq(t, 1, 4)), ParseInt(SubSeq(t, 6, 7)), ParseInt(SubSeq(t, 9, 10)) >>

Str_unbekannt == <<"u","n","b","e","k","a","n","n","t">>

\* d.strftime("%Y/%m/%d") if d else "unbekannt"
format_date_iso(d) ==
    IF d # None
    THEN ZeroPad(d[1], 4) \o <<"/">> \o ZeroPad(d[2], 2) \o <<"/">> \o ZeroPad(d[3], 2)
    ELSE Str_unbekannt

Str_base_datetime ==
    <<"2","0","2","5","-","0","1","-","0","1","T","0","0",":","0","0",":","0","0">>

\* datetime.isoformat() of the instant t microseconds after 2025-01-01T00:00:00
\* (t below one second): the fraction is left out when the microsecond is 0
DatetimeIso(t) ==
    IF t = 0 THEN Str_base_datetime
    ELSE Str_base_datetime \o <<".">> \o ZeroPad(t, 6)

\* the characters of the stored timestamps, in code-point order
CharOrder == <<"-", ".", "0","1","2","3","4","5","6","7","8","9", ":", "T">>
CharRank(c) == CHOOSE i \in 1..Len(CharOrder) : CharOrder[i] = c

\* a <= b for TIMESTAMP text, as SQLite and Python compare strings
RECURSIVE StrLeq(_, _)
StrLeq(a, b) ==
    IF a = <<>> THEN TRUE
    ELSE IF b = <<>> THEN FALSE
    ELSE IF a[1] # b[1] THEN CharRank(a[1]) < CharRank(b[1])
    ELSE StrLeq(Tail(a), Tail(b))

\* "\n".join(parts)
RECURSIVE JoinLines(_)
JoinLines(parts) ==
    IF parts = <<>> THEN <<>>
    ELSE IF Len(parts) = 1 THEN parts[1]
    ELSE parts[1] \o <<"\n">> \o JoinLines(Tail(parts))

\* the non-empty ones of a list of optional text fragments
RECURSIVE NonEmpty(_)
NonEmpty(parts) ==
    IF parts = <<>> THEN <<>>
    ELSE (IF parts[1] # None THEN <<parts[1]>> ELSE <<>>) \o NonEmpty(Tail(parts))

RECURSIVE FieldParts(_)
FieldParts(fields) ==
    IF fields = <<>> THEN <<>>
    ELSE <<fields[1].name, fields[1].value>> \o FieldParts(Tail(fields))

RECURSIVE EmbedParts(_)
EmbedParts(embeds) ==
    IF embeds = <<>> THEN <<>>
    ELSE LET e == embeds[1]
         IN  <<e.title, e.description>> \o FieldParts(e.fields)
               \o <<e.footer_text, e.author_name>> \o EmbedParts(Tail(embeds))

RECURSIVE AttachmentParts(_)
AttachmentParts(attachments) ==
    IF attachments = <<>> THEN <<>>
    ELSE <<attachments[1].description, attachments[1].filename>>
           \o AttachmentParts(Tail(attachments))

collect_text_from_message(message) ==
    JoinLines(NonEmpty(<<message.content>> \o EmbedParts(message.embeds)
                         \o AttachmentParts(message.attachments)))

\* ------------------------------------------------------------------------
\* Store: the giftcodes table as the connection sees it, code -> row
\* ------------------------------------------------------------------------
\* int(b) and bool(n)
BoolInt(b) == IF b THEN 1 ELSE 0
IntBool(n) == n # 0

\* a or b, for Optional[date] (a date is always truthy)
PyOr(a, b) == IF a # None THEN a ELSE b

\* x.isoformat() if x else None
OptDateIso(d) == IF d # None THEN DateIso(d) ELSE None

\* SELECT code, expiry, is_vip FROM giftcodes WHERE code = ?; fetchone()
SelectRow(d, code) ==
    IF code \in DOMAIN d THEN <<code, d[code].expiry, d[code].is_vip>> ELSE None

\* mutant of IsNewRow: a row without expiry is taken for a missing one
IsNewRow_OrNoExpiry(row) == row = None \/ row[2] = None

\* row is None
IsNewRow(row) == row = None

\* INSERT INTO giftcodes (code, first_seen, last_seen, expiry, is_vip)
InsertRow(d, code, seen_at, expiry, is_vip) ==
    (code :> [first_seen |-> DatetimeIso(seen_at),
              last_seen  |-> DatetimeIso(seen_at),
              expiry     |-> OptDateIso(expiry),
              is_vip     |-> BoolInt(is_vip)]) @@ d

\* date.fromisoformat(existing_expiry_str) if existing_expiry_str else None
ExistingExpiry(row) == IF row[2] # None THEN DateFromIso(row[2]) ELSE None

\* mutant of MergeExpiry: the operands swapped, the known expiry wins
MergeExpiry_KeepExisting(expiry, existing_expiry) == PyOr(existing_expiry, expiry)

\* best_expiry = expiry or existing_expiry
MergeExpiry(expiry, existing_expiry) == PyOr(expiry, existing_expiry)

\* mutant of MergeVip: the flag of this call overwrites the stored one
MergeVip_Overwrite(is_vip, prev_vip_int) == BoolInt(is_vip)

\* int(is_vip or prev_vip_int)
MergeVip(is_vip, prev_vip_int) == BoolInt(is_vip \/ IntBool(prev_vip_int))

\* mutant of UpdateRow: the UPDATE without its WHERE clause
UpdateRow_NoWhere(d, code, seen_at, best_expiry, vip_int) ==
    [c \in DOMAIN d |-> [d[c] EXCEPT !.last_seen = DatetimeIso(seen_at),
                                     !.expiry    = OptDateIso(best_expiry),
                                     !.is_vip    = vip_int]]

\* mutant of UpdateRow: the UPDATE sets first_seen too
UpdateRow_TouchesFirstSeen(d, code, seen_at, best_expiry, vip_int) ==
    [d EXCEPT ![code] = [@ EXCEPT !.first_seen = DatetimeIso(seen_at),
                                  !.last_seen  = DatetimeIso(seen_at),
                                  !.expiry     = OptDateIso(best_expiry),
                                  !.is_vip     = vip_int]]

\* UPDATE giftcodes SET last_seen=?, expiry=?, is_vip=? WHERE code=?
UpdateRow(d, code, seen_at, best_expiry, vip_int) ==
    [d EXCEPT ![code] = [@ EXCEPT !.last_seen = DatetimeIso(seen_at),
                                  !.expiry    = OptDateIso(best_expiry),
                                  !.is_vip    = vip_int]]

\* return False, existing_expiry, bool(prev_vip_int)
PriorValues(row) == <<FALSE, ExistingExpiry(row), IntBool(row[3])>>

\* mutant of upsert_code: the merged values are returned, not the prior ones
upsert_code_ReturnsMerged(d, code, seen_at, expiry, is_vip) ==
    LET row == SelectRow(d, code)
    IN  IF IsNewRow(row)
        THEN [db  |-> InsertRow(d, code, seen_at, expiry, is_vip),
              ret |-> <<TRUE, None, FALSE>>]
        ELSE [db  |-> UpdateRow(d, code, seen_at,
                                MergeExpiry(expiry, ExistingExpiry(row)),
                                MergeVip(is_vip, row[3])),
              ret |-> <<FALSE, MergeExpiry(expiry, ExistingExpiry(row)),
                        IntBool(MergeVip(is_vip, row[3]))>>]

\* Store.upsert_code, without its failures: the table after the call and the
\* tuple it returns
upsert_code(d, code, seen_at, expiry, is_vip) ==
    LET row == SelectRow(d, code)
    IN  IF IsNewRow(row)
        THEN [db  |-> InsertRow(d, code, seen_at, expiry, is_vip),
              ret |-> <<TRUE, None, FALSE>>]
        ELSE [db  |-> UpdateRow(d, code, seen_at,
                                MergeExpiry(expiry, ExistingExpiry(row)),
                                MergeVip(is_vip, row[3])),
              ret |-> PriorValues(row)]

\* ------------------------------------------------------------------------
\* announce_code: the text handed to target_channel.send, by its parts
\* ------------------------------------------------------------------------
Str_new_header ==
    <<"N","e","w"," ","g","i","f","t"," ","c","o","d","e","!">>
Str_recurring_header ==
    <<"R","e","c","u","r","r","i","n","g"," ","g","i","f","t"," ","c","o","d","e","!">>

\* mutant of announce_code: the header does not depend on recurring
announce_code_AlwaysNew(code, expiry, is_vip, recurring) ==
    [header   |-> Str_new_header,
     code     |-> code,
     until    |-> format_date_iso(expiry),
     vip_line |-> IF is_vip THEN code ELSE None]

\* header `code` -- redeem until <date>, and the VIP12 line when is_vip
announce_code(code, expiry, is_vip, recurring) ==
    [header   |-> IF recurring THEN Str_recurring_header ELSE Str_new_header,
     code     |-> code,
     until    |-> format_date_iso(expiry),
     vip_line |-> IF is_vip THEN code ELSE None]

\* ------------------------------------------------------------------------
\* Configuration and the inbound messages
\* ------------------------------------------------------------------------
SOURCE_CHANNEL_IDS == {111, 222}
TARGET_CHANNEL_ID == 333
BotUserId == "relay-bot"

Text_vip12_two_codes ==
    <<"v","i","p","1","2"," ","A","B","C","D","E","F"," ","Q","W","E","R","-","1","2","3","4",
      " ","2","0","2","5","/","1","2","/","3","1">>
Text_redeem_QWER ==
    <<"r","e","d","e","e","m"," ","Q","W","E","R","-","1","2","3","4"," ","u","n","t","i","l",
      " ","0","1",".","0","2",".","2","0","2","5">>
Text_giftcode_twice ==
    <<"g","i","f","t","c","o","d","e"," ","A","B","C","D","E","F"," ","A","B","C","D","E","F">>

Text_no_keyword ==
    <<"h","e","l","l","o"," ","A","B","C","D","E","F">>
Text_lower_case_tokens ==
    <<"g","i","f","t"," ","c","o","d","e"," ","a","b","c","d","-","1","2","3","4","-",
      "w","x","y","z"," ","r","e","d","e","e","m","n","o","w","1","2","3","4","5","6">>
Text_no_codes ==
    <<"v","o","u","c","h","e","r"," ","s","o","o","n"," ","v","i","p"," ","2","0","2",
      "5","/","1","2","/","3","1">>
\* the text announce_code composes, without its Markdown marks and its dash
Text_own_announcement ==
    <<"N","e","w"," ","g","i","f","t"," ","c","o","d","e","!"," ","A","B","C","D","E","F",
      " ","r","e","d","e","e","m"," ","u","n","t","i","l"," ",
      "2","0","2","5","/","1","2","/","3","1">>
Text_gift_code_ABCDEF ==
    <<"g","i","f","t"," ","c","o","d","e"," ","A","B","C","D","E","F">>
Text_month_13 ==
    <<"g","i","f","t"," ","c","o","d","e"," ","A","B","C","D","E","F"," ","2","0","2",
      "5","/","1","3","/","0","1">>

Msg(author, channel, content) ==
    [author |-> author, channel |-> channel, content |-> content,
     embeds |-> <<>>, attachments |-> <<>>]

\* the messages the transport may deliver, any number of times and in any order
Corpus == <<
    Msg("alice", 111, Text_vip12_two_codes),
    Msg("carol", 222, Text_redeem_QWER),
    Msg("alice", 111, Text_giftcode_twice),
    Msg("dave", 111, Text_no_keyword),
    Msg("alice", 111, Text_lower_case_tokens),
    Msg("erin", 222, Text_no_codes),
    Msg(BotUserId, 111, Text_own_announcement),
    Msg("alice", 444, Text_gift_code_ABCDEF),
    Msg("alice", 111, Text_month_13) >>

\* the messages whose codes reach the loop, delivered under Spec
RelayMsgs == {1, 2, 3}
\* the messages delivered under SpecCrash: both bring ABCDEF, one a second code
CrashMsgs == {1, 3}
\* the messages delivered under SpecFilter: those a check of on_message turns
\* away, the one with a date no calendar has, and one that is relayed in full
FilterMsgs == {1, 4, 5, 6, 7, 8, 9}

\* what lines 199-211 of on_message compute from a message
Extracted ==
    [k \in 1..Len(Corpus) |->
        LET raw == collect_text_from_message(Corpus[k])
        IN  [raw    |-> raw,
             gift   |-> looks_like_gift_announcement(raw),
             codes  |-> find_codes(raw),
             expiry |-> extract_expiry(raw),
             is_vip |-> VipSearch(raw)]]

\* ------------------------------------------------------------------------
\* Bounds
\* ------------------------------------------------------------------------
\* messages delivered in one behaviour
MaxEvents == 2
\* the largest utcnow() reading, in microseconds after the base instant; a
\* reading is the previous one or the next microsecond (only the order of the
\* readings is stored and compared)
MaxClock == 2

\* ------------------------------------------------------------------------
\* State
\* ------------------------------------------------------------------------
VARIABLES
    db,      \* the giftcodes table as the open connection reads it: code -> row
    disk,    \* the committed giftcodes table, what a new connection reads
    runs,    \* the on_message tasks, in arrival order
    clock,   \* the latest utcnow() reading
    target,  \* what bot.get_channel(TARGET_CHANNEL_ID) resolves to
    calls,   \* history: the upsert_code calls, in call order
    sent     \* history: the payloads handed to target_channel.send, in order

vars == <<db, disk, runs, clock, target, calls, sent>>

Init ==
    /\ db = <<>>
    /\ disk = <<>>
    /\ runs = <<>>
    /\ clock = 0
    /\ target \in {"TextChannel", "None"}
    /\ calls = <<>>
    /\ sent = <<>>

\* a task that returned before it extracted anything: its exit names the
\* return taken
Returned(k, exit) ==
    [msg |-> k, pc |-> "done", exit |-> exit, i |-> 0, now |-> 0,
     codes |-> <<>>, expiry |-> None, is_vip |-> FALSE]

\* a task that reached its loop, with the locals the loop reads
Looping(k, codes, expiry, is_vip, now) ==
    [msg |-> k, pc |-> "running", exit |-> "none", i |-> 0, now |-> now,
     codes |-> codes, expiry |-> expiry, is_vip |-> is_vip]

\* mutant of IsOwnMessage: the check of line 189 left out
IsOwnMessage_Never(m) == FALSE

\* message.author == bot.user
IsOwnMessage(m) == m.author = BotUserId

\* message.channel.id in SOURCE_CHANNEL_IDS
IsSourceChannel(m) == m.channel \in SOURCE_CHANNEL_IDS

\* mutant of IsGiftEvent: the classifier left out of line 200
IsGiftEvent_AnyText(x) == x.raw # <<>>

\* the negation of line 200: raw and looks_like_gift_announcement(raw)
IsGiftEvent(x) == x.raw # <<>> /\ x.gift

\* mutant of IsTextChannel: the check of line 213 left out
IsTextChannel_Any(t) == TRUE

\* isinstance(target_channel, discord.TextChannel)
IsTextChannel(t) == t = "TextChannel"

\* mutant of ResolveExpiry: the operands swapped, the prior expiry wins
ResolveExpiry_PriorFirst(expiry, prev_expiry) == PyOr(prev_expiry, expiry)

\* best_expiry = expiry or prev_expiry
ResolveExpiry(expiry, prev_expiry) == PyOr(expiry, prev_expiry)

\* all the columns of the row of code, None without a row
FullRow(d, code) ==
    IF code \in DOMAIN d
    THEN <<d[code].first_seen, d[code].last_seen, d[code].expiry, d[code].is_vip>>
    ELSE None

\* mutant of CommitTo: upsert_code without its conn.commit()
CommitTo_Never(dsk, d, outcome) == dsk

\* conn.commit() of lines 86 and 96: when it succeeds, all that the
\* connection's open transaction holds (the write of this call and the writes
\* earlier failed commits left in it) becomes the committed table
CommitTo(dsk, d, outcome) == IF outcome = "ok" THEN d ELSE dsk

\* mutant of ReachesAnnounce: a try/except around upsert_code swallows the error
ReachesAnnounce_Swallowed(outcome) == TRUE

\* line 219 returns, so that lines 220-223 run: an exception raised by
\* upsert_code is caught nowhere and leaves on_message
ReachesAnnounce(outcome) == outcome = "ok"

\* One turn of the for loop up to its await, for the task at position r of
\* rs: upsert_code for codes[i] at the run's now, then announce_code up to
\* target_channel.send.  outcome is what SQLite does: "ok", "error" (SELECT,
\* INSERT or UPDATE raises, or COMMIT raises and rolls back) or "commit_error"
\* (COMMIT raises and the write stays in the connection's open transaction).
Iterate(rs, r, i, outcome) ==
    LET x    == rs[r]
        res  == upsert_code(db, x.codes[i], x.now, x.expiry, x.is_vip)
        next == IF outcome = "error" THEN db ELSE res.db
    IN  /\ calls' = Append(calls,
                      [run |-> r, idx |-> i, code |-> x.codes[i], seen_at |-> x.now,
                       expiry |-> x.expiry, is_vip |-> x.is_vip,
                       returned |-> outcome = "ok",
                       wrote |-> outcome # "error",
                       ret |-> res.ret,
                       prior |-> SelectRow(db, x.codes[i]),
                       after |-> SelectRow(next, x.codes[i]),
                       row |-> FullRow(next, x.codes[i])])
        /\ db' = next
        /\ disk' = CommitTo(disk, res.db, outcome)
        /\ IF ReachesAnnounce(outcome)
           THEN /\ sent' = Append(sent, [run |-> r, idx |-> i,
                              payload |-> announce_code(x.codes[i],
                                              ResolveExpiry(x.expiry, res.ret[2]),
                                              x.is_vip \/ res.ret[3],
                                              ~res.ret[1])])
                /\ runs' = [rs EXCEPT ![r].pc = "sending", ![r].i = i]
           ELSE /\ sent' = sent
                /\ runs' = [rs EXCEPT ![r].pc = "failed", ![r].exit = "ledger", ![r].i = i]

\* A message arrives: discord.py creates the on_message task, which runs from
\* line 186 to its first suspension.  "await bot.process_commands(message)"
\* does not suspend for a message that invokes no command, and no message of
\* Corpus does, so the task runs on to the first target_channel.send, or ends.
OnMessage(k) ==
    /\ Len(runs) < MaxEvents
    /\ LET m == Corpus[k]
           x == Extracted[k]
       IN  IF IsOwnMessage(m)
           THEN /\ runs' = Append(runs, Returned(k, "self"))
                /\ UNCHANGED <<db, disk, clock, target, calls, sent>>
           ELSE IF ~IsSourceChannel(m)
           THEN /\ runs' = Append(runs, Returned(k, "channel"))
                /\ UNCHANGED <<db, disk, clock, target, calls, sent>>
           ELSE IF ~IsGiftEvent(x)
           THEN /\ runs' = Append(runs, Returned(k, "not_gift"))
                /\ UNCHANGED <<db, disk, clock, target, calls, sent>>
           ELSE IF x.codes = <<>>
           THEN /\ runs' = Append(runs, Returned(k, "no_codes"))
                /\ UNCHANGED <<db, disk, clock, target, calls, sent>>
           ELSE IF ~IsTextChannel(target)
           THEN /\ runs' = Append(runs, Returned(k, "no_target"))
                /\ UNCHANGED <<db, disk, clock, target, calls, sent>>
           ELSE \E now \in {clock, clock + 1} \cap (0..MaxClock) :
                \E outcome \in {"ok", "error", "commit_error"} :
                   /\ clock' = now
                   /\ UNCHANGED target
                   /\ Iterate(Append(runs, Looping(k, x.codes, x.expiry, x.is_vip, now)),
                              Len(runs) + 1, 1, outcome)

\* target_channel.send returns: the next turn of the loop, or the end of it
SendReturns(r) ==
    /\ r \in 1..Len(runs)
    /\ runs[r].pc = "sending"
    /\ IF runs[r].i < Len(runs[r].codes)
       THEN \E outcome \in {"ok", "error", "commit_error"} :
               /\ Iterate(runs, r, runs[r].i + 1, outcome)
               /\ UNCHANGED <<clock, target>>
       ELSE /\ runs' = [runs EXCEPT ![r].pc = "done", ![r].exit = "relayed"]
            /\ UNCHANGED <<db, disk, clock, target, calls, sent>>

\* target_channel.send raises: nothing catches it, the task ends
SendRaises(r) ==
    /\ r \in 1..Len(runs)
    /\ runs[r].pc = "sending"
    /\ runs' = [runs EXCEPT ![r].pc = "failed", ![r].exit = "delivery"]
    /\ UNCHANGED <<db, disk, clock, target, calls, sent>>

Next ==
    \/ \E k \in RelayMsgs : OnMessage(k)
    \/ \E r \in 1..MaxEvents : SendReturns(r)
    \/ \E r \in 1..MaxEvents : SendRaises(r)

Spec == Init /\ [][Next]_vars

\* What bot.get_channel(TARGET_CHANNEL_ID) returns changes: the channel enters
\* the client's cache (the guild becomes available, the channel is created)
\* or leaves it.  A task suspended in send keeps the channel object it holds.
ChannelCacheChanges ==
    /\ target' \in {"TextChannel", "None"} \ {target}
    /\ UNCHANGED <<db, disk, runs, clock, calls, sent>>

NextFilter ==
    \/ \E k \in FilterMsgs : OnMessage(k)
    \/ \E r \in 1..MaxEvents : SendReturns(r)
    \/ \E r \in 1..MaxEvents : SendRaises(r)
    \/ ChannelCacheChanges

SpecFilter == Init /\ [][NextFilter]_vars

\* The process dies and is started again: every task that had not ended is
\* gone, and Store(DB_PATH) of line 99 opens a new connection, which reads the
\* committed table; what the old connection's open transaction held is lost.
Crash ==
    /\ db' = disk
    /\ runs' = [r \in 1..Len(runs) |->
                  IF runs[r].pc = "sending"
                  THEN [runs[r] EXCEPT !.pc = "failed", !.exit = "crash"]
                  ELSE runs[r]]
    /\ UNCHANGED <<disk, clock, target, calls, sent>>

NextCrash ==
    \/ \E k \in CrashMsgs : OnMessage(k)
    \/ \E r \in 1..MaxEvents : SendReturns(r)
    \/ \E r \in 1..MaxEvents : SendRaises(r)
    \/ Crash

SpecCrash == Init /\ [][NextCrash]_vars

\* ------------------------------------------------------------------------
\* Properties
\* ------------------------------------------------------------------------
CallIds == 1..Len(calls)
RunIds == 1..Len(runs)

\* the calls before call k that reached the row of the same code
WritesBefore(k) ==
    {j \in 1..(k - 1) : calls[j].code = calls[k].code /\ calls[j].wrote}

\* the calls that reached the row of code c
WritesOf(c) == {j \in CallIds : calls[j].code = c /\ calls[j].wrote}

\* the expiry of the latest call of js that supplied one, None without any
LastSupplied(js) ==
    LET with == {j \in js : calls[j].expiry # None}
    IN  IF with = {} THEN None
        ELSE calls[CHOOSE j \in with : \A h \in with : h <= j].expiry

Ended_pcs == {"done", "failed"}

\* C1: a call of upsert_code that returns reports isNew = true exactly when no
\* earlier call has written a record for its code, whatever expiry and VIP
\* values the calls pass; and a record that was written is still in the table.
C1_IsNewOnlyOnFirstObservation ==
    /\ \A k \in CallIds :
          calls[k].returned => (calls[k].ret[1] = (WritesBefore(k) = {}))
    /\ \A k \in CallIds : calls[k].wrote => calls[k].code \in DOMAIN db

\* C1 witness: two calls for one code that pass different expiries returned,
\* the first with isNew = true and the second with isNew = false.
C1_Witness ==
    \E k \in CallIds : \E j \in 1..(k - 1) :
        /\ calls[j].code = calls[k].code
        /\ calls[j].returned /\ calls[k].returned
        /\ calls[j].expiry # calls[k].expiry
        /\ calls[j].ret[1] /\ ~calls[k].ret[1]

\* C2: every stored record has first_seen <= last_seen, also when on_message
\* runs interleave at their awaits.  (The code breaks it: a run keeps the now
\* it read before its loop, and writes it as last_seen after a later run has
\* inserted the code with a later first_seen.)
C2_FirstSeenNotAfterLastSeen ==
    \A c \in DOMAIN db : StrLeq(db[c].first_seen, db[c].last_seen)

\* C3: events of one source channel are processed one at a time in arrival
\* order: when a later event of a channel has made a ledger observation, every
\* earlier event of that channel has ended.
C3_SameChannelRunsDoNotInterleave ==
    \A k \in CallIds : \A r \in RunIds :
        ( /\ r < calls[k].run
          /\ Corpus[runs[r].msg].channel = Corpus[runs[calls[k].run].msg].channel )
        => runs[r].pc \in Ended_pcs

\* C4: observations of a code serialize: the row a call reads is the row the
\* previous call for that code left (None before the first), the stored row
\* is the one the last call left, no other call's row changes in between, and
\* at most one call per code returns isNew = true.
C4_ObserveIsAtomicPerCode ==
    /\ \A k \in CallIds :
          LET earlier == {j \in 1..(k - 1) : calls[j].code = calls[k].code}
          IN  calls[k].prior =
                 IF earlier = {} THEN None
                 ELSE calls[CHOOSE j \in earlier : \A h \in earlier : h <= j].after
    /\ \A c \in DOMAIN db :
          LET of == {j \in CallIds : calls[j].code = c}
          IN  /\ of # {}
              /\ SelectRow(db, c) = calls[CHOOSE j \in of : \A h \in of : h <= j].after
    /\ \A k \in CallIds : \A j \in CallIds :
          ( /\ calls[j].code = calls[k].code
            /\ calls[j].returned /\ calls[k].returned
            /\ calls[j].ret[1] /\ calls[k].ret[1] ) => j = k

\* C4 witness: two runs that are both suspended in send have observed the same
\* code; the first was told isNew = true and the second isNew = false.
C4_Witness ==
    \E k \in CallIds : \E j \in 1..(k - 1) :
        /\ calls[j].code = calls[k].code
        /\ calls[j].run # calls[k].run
        /\ runs[calls[j].run].pc = "sending" /\ runs[calls[k].run].pc = "sending"
        /\ calls[j].returned /\ calls[k].returned
        /\ calls[j].ret[1] /\ ~calls[k].ret[1]

\* C5: one event makes one ledger observation (and one announcement) per
\* distinct code: no run calls upsert_code twice for the same code.
C5_OneObservationPerDistinctCode ==
    \A k \in CallIds : \A j \in CallIds :
        (calls[j].run = calls[k].run /\ calls[j].code = calls[k].code) => j = k

\* C6: the stored expiry of a code is the expiry of the latest call that
\* supplied one, and NULL only when no call supplied one.
C6_ExpiryIsLastSupplied ==
    \A c \in DOMAIN db : db[c].expiry = OptDateIso(LastSupplied(WritesOf(c)))

\* C6 witness: a code was observed with an expiry and later with an earlier
\* one, which is the stored one.
C6_Witness ==
    \E k \in CallIds : \E j \in WritesBefore(k) :
        /\ calls[k].wrote
        /\ calls[j].expiry # None /\ calls[k].expiry # None
        /\ calls[k].expiry # calls[j].expiry
        /\ StrLeq(DateIso(calls[k].expiry), DateIso(calls[j].expiry))
        /\ db[calls[k].code].expiry = DateIso(calls[k].expiry)

\* C7: the stored is_vip of a code is the OR of the VIP flags of all the calls
\* made for it, so once true it stays true.
C7_VipIsOrOfObserved ==
    \A c \in DOMAIN db :
        IntBool(db[c].is_vip) = (\E j \in WritesOf(c) : calls[j].is_vip)

\* C7 witness: a code observed as VIP was later observed without the VIP
\* marker, and is stored as VIP.
C7_Witness ==
    \E k \in CallIds : \E j \in WritesBefore(k) :
        /\ calls[k].wrote
        /\ calls[j].is_vip /\ ~calls[k].is_vip
        /\ db[calls[k].code].is_vip = 1

\* C8: a call on an existing record returns the expiry and VIP flag the
\* earlier calls left, not merged with the values the call itself passes.
C8_ReturnsPriorValues ==
    \A k \in CallIds :
        (calls[k].returned /\ WritesBefore(k) # {}) =>
            /\ calls[k].ret[2] = LastSupplied(WritesBefore(k))
            /\ calls[k].ret[3] = (\E j \in WritesBefore(k) : calls[j].is_vip)

\* C8 witness: a call that passed an expiry got back the different expiry of
\* an earlier call.
C8_Witness ==
    \E k \in CallIds :
        /\ calls[k].returned
        /\ calls[k].expiry # None
        /\ calls[k].ret[2] # None
        /\ calls[k].ret[2] # calls[k].expiry

\* C9: when upsert_code raises, the run ends with that failure and hands no
\* announcement to send for that observation or any later one.
C9_LedgerFailureAbortsAnnouncement ==
    \A k \in CallIds :
        ~calls[k].returned =>
            /\ runs[calls[k].run].pc = "failed"
            /\ runs[calls[k].run].exit = "ledger"
            /\ \A n \in 1..Len(sent) :
                  sent[n].run = calls[k].run => sent[n].idx < calls[k].idx

\* C9 witness: upsert_code raised for the second code of an event whose first
\* code was announced.
C9_Witness ==
    \E k \in CallIds :
        /\ ~calls[k].returned
        /\ calls[k].idx = 2
        /\ \E n \in 1..Len(sent) : sent[n].run = calls[k].run

\* C10: a delivery failure for one code does not keep the other codes of the
\* event from being observed: a run whose send raised has still called
\* upsert_code for every code of its event.
C10_DeliveryFailureSparesOtherCodes ==
    \A r \in RunIds :
        runs[r].exit = "delivery" =>
            \A i \in 1..Len(runs[r].codes) :
                \E k \in CallIds : calls[k].run = r /\ calls[k].idx = i

\* the calls for code c that returned to on_message
ReturnedOf(c) == {k \in CallIds : calls[k].code = c /\ calls[k].returned}

\* the row of c in table d is the row left by a call for c that is the last
\* returned call for c or a later one
HoldsLastReturned(d, c) ==
    LET last == CHOOSE k \in ReturnedOf(c) : \A h \in ReturnedOf(c) : h <= k
    IN  /\ c \in DOMAIN d
        /\ \E j \in WritesOf(c) : j >= last /\ FullRow(d, c) = calls[j].row

\* C11: once upsert_code has returned for a code, its effects (the record and
\* its first_seen, last_seen, expiry and is_vip) are in the committed table
\* and in the table the process reads, before and after any crash and
\* restart: a crash loses only what calls that did not return had written.
C11_ReturnedObservationsSurviveCrash ==
    \A k \in CallIds :
        calls[k].returned =>
            /\ HoldsLastReturned(disk, calls[k].code)
            /\ HoldsLastReturned(db, calls[k].code)

\* C11 witness: the process crashed while a run was suspended in send after a
\* returned observation; a restart reads that observation's row, and the row
\* a failed commit of another call had left in the open transaction is gone.
C11_Witness ==
    /\ db = disk
    /\ \E r \in RunIds : runs[r].exit = "crash"
    /\ \E k \in CallIds :
          /\ calls[k].returned
          /\ FullRow(db, calls[k].code) = calls[k].row
    /\ \E j \in CallIds :
          /\ calls[j].wrote /\ ~calls[j].returned
          /\ calls[j].code \notin DOMAIN db

\* the step is the arrival of message k: its task is the new last one of runs
Arrives(k) ==
    /\ Len(runs') = Len(runs) + 1
    /\ runs'[Len(runs')].msg = k

\* the task that arrived in this step has ended in it
ArrivedTaskEnded == runs'[Len(runs')].pc = "done"

\* the step leaves the ledger and both histories as they were
NothingObservedOrAnnounced ==
    db' = db /\ disk' = disk /\ calls' = calls /\ sent' = sent

\* the messages whose collected text, in lower case, holds no keyword
NoKeywordMsgs ==
    {k \in 1..Len(Corpus) :
        \A n \in 1..Len(KEYWORDS) :
            ~Contains(StrLower(collect_text_from_message(Corpus[k])), KEYWORDS[n])}

\* C12: an event whose collected text contains none of the keywords (as
\* case-insensitive substrings) ends on arrival: no announcement is composed
\* and the ledger is unchanged, also when the text holds code-shaped tokens.
C12_NoKeywordEventChangesNothing ==
    [][\A k \in NoKeywordMsgs :
          Arrives(k) => (ArrivedTaskEnded /\ NothingObservedOrAnnounced)]_vars

\* C12 witness: a message from a participant on a source channel, with a
\* code-shaped token and no keyword, was turned away as no gift announcement
\* while the target channel was resolvable and the ledger held a record.
C12_Witness ==
    \E r \in RunIds :
        /\ runs[r].msg \in NoKeywordMsgs
        /\ Extracted[runs[r].msg].codes # <<>>
        /\ runs[r].exit = "not_gift"
        /\ target = "TextChannel"
        /\ db # <<>>

\* the exits on_message takes before it calls find_codes
ExitsBeforeFindCodes == {"self", "channel", "not_gift"}

Token_abcd_1234_wxyz ==
    <<"a","b","c","d","-","1","2","3","4","-","w","x","y","z">>
Token_redeemnow123456 ==
    <<"r","e","d","e","e","m","n","o","w","1","2","3","4","5","6">>

\* C13: code tokens match without regard to case: when the text of an event
\* that reaches find_codes holds "abcd-1234-wxyz" or "redeemnow123456",
\* find_codes returns the token in upper case.  (The code breaks it:
\* CODE_REGEX is compiled without re.IGNORECASE and matches A-Z only.)
C13_LowerCaseTokensAreExtracted ==
    \A r \in RunIds :
        runs[r].exit \notin ExitsBeforeFindCodes =>
            \A t \in {Token_abcd_1234_wxyz, Token_redeemnow123456} :
                Contains(Extracted[runs[r].msg].raw, t) =>
                    \E n \in 1..Len(Extracted[runs[r].msg].codes) :
                        Extracted[runs[r].msg].codes[n] = StrUpper(t)

\* the messages whose collected text has no "-" and no run of six or more of
\* A-Z and 0-9: no alternative of CODE_REGEX can match in them
NoTokenMsgs ==
    {k \in 1..Len(Corpus) :
        LET raw == collect_text_from_message(Corpus[k])
        IN  \A p \in 1..Len(raw) :
                raw[p] # "-" /\ RunLen(raw, p, Upper \cup Digit) < MinPlainLen}

\* C14: an event that is classified as a gift announcement and holds no code
\* token ends on arrival: no announcement, no ledger write, also when an
\* expiry or a VIP marker is found in its text.
C14_NoCodesEventChangesNothing ==
    [][\A k \in NoTokenMsgs \ NoKeywordMsgs :
          Arrives(k) => (ArrivedTaskEnded /\ NothingObservedOrAnnounced)]_vars

\* C14 witness: a message with a keyword, an expiry date and a VIP marker but
\* no code token, from a participant on a source channel, ended at the check
\* of the code list while the target channel was resolvable.
C14_Witness ==
    \E r \in RunIds :
        /\ runs[r].msg \in NoTokenMsgs \ NoKeywordMsgs
        /\ Extracted[runs[r].msg].expiry # None
        /\ Extracted[runs[r].msg].is_vip
        /\ runs[r].exit = "no_codes"
        /\ target = "TextChannel"
        /\ db # <<>>

\* the messages the bot itself is the author of
OwnMsgs == {k \in 1..Len(Corpus) : Corpus[k].author = BotUserId}

\* the messages of channels that are not configured as sources
OffSourceMsgs == {k \in 1..Len(Corpus) : Corpus[k].channel \notin SOURCE_CHANNEL_IDS}

\* C15: an event the bot itself is the author of, or that comes from a
\* channel that is no source channel, ends on arrival without a ledger change
\* and without an announcement; so an announcement of the bot that comes back
\* to it on a source channel is not processed again.
C15_OwnAndOffSourceEventsChangeNothing ==
    [][\A k \in OwnMsgs \cup OffSourceMsgs :
          Arrives(k) => (ArrivedTaskEnded /\ NothingObservedOrAnnounced)]_vars

\* C15 witness: after the bot announced a code, a message of its own with the
\* text of a new-code announcement arrived on a source channel and was turned
\* away as its own, although it holds a keyword and a code token.
C15_Witness ==
    \E r \in RunIds :
        /\ runs[r].msg \in OwnMsgs
        /\ IsSourceChannel(Corpus[runs[r].msg])
        /\ Extracted[runs[r].msg].gift
        /\ Extracted[runs[r].msg].codes # <<>>
        /\ runs[r].exit = "self"
        /\ target = "TextChannel"
        /\ \E n \in 1..Len(sent) :
              /\ sent[n].run < r
              /\ sent[n].payload.header = Str_new_header
              /\ <<sent[n].payload.code>> = Extracted[runs[r].msg].codes

\* the other case, reached too: a message with a keyword and a code token on
\* a channel that is no source was turned away at the channel check
C15_OffSourceTurnedAway ==
    \E r \in RunIds :
        /\ runs[r].msg \in OffSourceMsgs \ OwnMsgs
        /\ Extracted[runs[r].msg].codes # <<>>
        /\ runs[r].exit = "channel"

\* the messages whose only date-like text is year/month/day with a month
\* above 12 or a day above 31
MalformedDateMsgs ==
    {k \in 1..Len(Corpus) :
        LET raw == collect_text_from_message(Corpus[k])
        IN  /\ SearchA(raw) # None
            /\ (SearchA(raw)[2] > 12 \/ SearchA(raw)[3] > 31)
            /\ SearchB(raw) = None}

\* the call that run r made for its i-th code
CallOf(r, i) == CHOOSE k \in CallIds : calls[k].run = r /\ calls[k].idx = i

\* the runs of messages with a malformed date that got past the checks of
\* on_message
MalformedDateRuns ==
    {r \in RunIds : runs[r].msg \in MalformedDateMsgs /\ runs[r].codes # <<>>}

FirstWriteOf(c) == CHOOSE j \in WritesOf(c) : \A h \in WritesOf(c) : j <= h

\* C17: first_seen of a record is the observation time of the call that
\* created it, and no later call for the code changes it.
C17_FirstSeenIsCreationTime ==
    \A c \in DOMAIN db :
        db[c].first_seen = DatetimeIso(calls[FirstWriteOf(c)].seen_at)

\* C17 witness: a code was observed again at a later time by a call that
\* returned; last_seen is that later time and first_seen still the first one.
C17_Witness ==
    \E k \in CallIds : \E j \in WritesBefore(k) :
        /\ calls[k].returned
        /\ calls[j].seen_at < calls[k].seen_at
        /\ db[calls[k].code].first_seen = DatetimeIso(calls[j].seen_at)
        /\ db[calls[k].code].last_seen = DatetimeIso(calls[k].seen_at)
        /\ db[calls[k].code].first_seen # db[calls[k].code].last_seen

\* the announcements composed for code c
SentOf(c) == {n \in 1..Len(sent) : sent[n].payload.code = c}

\* C18: over the whole life of the ledger, restarts of the process included,
\* at most one announcement with the header "New gift code!" is composed for
\* a code; every other announcement of the code has the header "Recurring
\* gift code!".
C18_AtMostOneNewAnnouncementPerCode ==
    \A n \in 1..Len(sent) :
        /\ sent[n].payload.header \in {Str_new_header, Str_recurring_header}
        /\ \A m \in SentOf(sent[n].payload.code) :
              (sent[m].payload.header = Str_new_header /\
               sent[n].payload.header = Str_new_header) => m = n

\* C18 witness: a code was announced as new, the process crashed and started
\* again, and a later event announced the same code as recurring.
C18_Witness ==
    \E n \in 1..Len(sent) : \E m \in 1..(n - 1) :
        /\ sent[m].payload.code = sent[n].payload.code
        /\ sent[m].run # sent[n].run
        /\ runs[sent[m].run].exit = "crash"
        /\ sent[m].payload.header = Str_new_header
        /\ sent[n].payload.header = Str_recurring_header

\* C19: the expiry and the VIP marker of an announcement are the expiry and
\* is_vip of the ledger row as the upsert_code call of that announcement left
\* it, whatever other runs do between the awaits.
C19_AnnouncementShowsStoredValues ==
    \A n \in 1..Len(sent) :
        LET row == calls[CallOf(sent[n].run, sent[n].idx)].after
        IN  /\ row # None
            /\ sent[n].payload.until = format_date_iso(ExistingExpiry(row))
            /\ (sent[n].payload.vip_line # None) = IntBool(row[3])

\* C19 witness: while another run was suspended in send, an event with no
\* expiry and no VIP marker of its own was announced with the expiry and the
\* VIP line the ledger held for its code.
C19_Witness ==
    \E n \in 1..Len(sent) : \E r \in RunIds :
        /\ r # sent[n].run
        /\ runs[r].pc = "sending"
        /\ runs[sent[n].run].pc = "sending"
        /\ runs[sent[n].run].expiry = None
        /\ ~runs[sent[n].run].is_vip
        /\ sent[n].payload.until # Str_unbekannt
        /\ sent[n].payload.vip_line # None
        /\ sent[n].payload.until = format_date_iso(DateFromIso(db[sent[n].payload.code].expiry))

\* the messages that pass every check of on_message before the target lookup
RelayableMsgs ==
    {k \in 1..Len(Corpus) :
        /\ Corpus[k].author # BotUserId
        /\ Corpus[k].channel \in SOURCE_CHANNEL_IDS
        /\ k \notin NoKeywordMsgs
        /\ Extracted[k].codes # <<>>}

\* a returned call for a code that no earlier call has written was told
\* isNew = true and announced as new, also when an earlier event with that
\* code found no target channel
UnannouncedCodeIsStillNew ==
    \A r \in RunIds : \A k \in CallIds :
        ( /\ runs[r].exit = "no_target"
          /\ r < calls[k].run
          /\ \E i \in 1..Len(Extracted[runs[r].msg].codes) :
                Extracted[runs[r].msg].codes[i] = calls[k].code
          /\ calls[k].returned
          /\ WritesBefore(k) = {} )
        => /\ calls[k].ret[1]
           /\ \E n \in 1..Len(sent) :
                 /\ sent[n].run = calls[k].run /\ sent[n].idx = calls[k].idx
                 /\ sent[n].payload.header = Str_new_header

\* C20: when the target channel cannot be resolved to a text channel, an
\* event that is classified and holds codes ends on arrival, the ledger is
\* unchanged and nothing is announced; a later event with the same code is
\* still observed and announced as new.
C20_NoTargetLeavesLedgerUnchanged ==
    /\ [][\A k \in RelayableMsgs :
             (Arrives(k) /\ target # "TextChannel")
                => (ArrivedTaskEnded /\ NothingObservedOrAnnounced)]_vars
    /\ []UnannouncedCodeIsStillNew

\* C20 witness: an event with a code found no target channel; the channel
\* became resolvable, and a later event with that code was told isNew = true
\* and announced with "New gift code!".
C20_Witness ==
    \E r \in RunIds : \E n \in 1..Len(sent) :
        /\ runs[r].exit = "no_target"
        /\ runs[r].msg \in RelayableMsgs
        /\ r < sent[n].run
        /\ \E i \in 1..Len(Extracted[runs[r].msg].codes) :
              Extracted[runs[r].msg].codes[i] = sent[n].payload.code
        /\ calls[CallOf(sent[n].run, sent[n].idx)].ret[1]
        /\ sent[n].payload.header = Str_new_header

====
